---- MODULE Spec2Model ----
(***************************************************************************)
(* Model of apps/bench/storage_bench.cc: the open-loop storage load        *)
(* generator.  Time is the steady_clock reading in whole microseconds.     *)
(* One trial (RunExperiment) runs `threads` worker streams (ClientWorker), *)
(* each of which replays a Schedule produced by GenerateWork and spawns    *)
(* one execution unit per dispatched item; ClientHandler sweeps trials.    *)
(***************************************************************************)
EXTENDS Integers, Sequences, FiniteSets, TLC

\* ---------------------------------------------------------------- bounds
\* number of worker streams (the global `threads`, argv[2])
Threads == 2
\* the horizon last_us handed to GenerateWork by SteadyStateExperiment
LastUs == 2
\* number of rate points ClientHandler sweeps
NumPoints == 2
\* most Work Items the streams of one trial generate between them
MaxItems == 3

\* ------------------------------------------------------- program constants
kMaxCatchUpUS == 5
\* the largest value the address sampler returns
total_block_count == 547002288
\* the write percentage the modelled run is started with (argv[4])
ArgPctSet == 50

Streams == 1..Threads

\* the steady_clock readings the model lets a thread observe, in microseconds:
\* they cover an item that is early, on time, late by exactly the tolerance and
\* late by more, for the offsets GenerateWork produces from Gaps
ClockReadings == {0, 1, 2, 8}
LastReading == CHOOSE t \in ClockReadings : \A u \in ClockReadings : u <= t
NextReading(t) ==
  CHOOSE u \in ClockReadings : u > t /\ \A v \in ClockReadings : v > t => u <= v

\* gaps the arrival sampler a() can return (a short one, and one that spans the
\* horizon), and values the sampler s() can return
Gaps == {1, LastUs}
ArrivalStreams == [1..LastUs -> Gaps]
ServiceStreams == { <<7, 150, 150, 7, 7, 150>> }

\* ------------------------------------------------------------------- state
VARIABLES
  now,        \* steady_clock::now()
  point,      \* rate points of ClientHandler started so far
  cpc,        \* where the Coordinator (RunExperiment / SteadyStateExperiment) is
  starter,    \* count of rt::WaitGroup starter
  start,      \* RunExperiment's start
  finish,     \* RunExperiment's finish
  wpc,        \* where each ClientWorker is
  w,          \* each ClientWorker's vector w
  expstart,   \* each ClientWorker's expstart
  idx,        \* each ClientWorker's loop index i (1-based)
  dropped,    \* each ClientWorker's dropped
  wg,         \* count of each ClientWorker's rt::WaitGroup wg
  timings,    \* each ClientWorker's timings
  it,         \* per item: the execution unit's position and what was observed
  samples,    \* samples[i] of RunExperiment (<<>> while unset)
  agg,        \* RunExperiment's w after aggregation and filtering
  rps,        \* *reqs_per_sec as the pair w.size(), elapsed it is computed from
  records,    \* the samples column (w.size()) of each Summary Record printed
  accessed,   \* ranks PrintStatResults read on its last call
  gpc,        \* GenerateWork called on its own: "in" before, "out" after
  gin,        \* its arguments
  gout,       \* the Schedule it returned
  pct_set,    \* the global pct_set, written once by main
  ppc,        \* PrintStatResults called on its own: "in" before, "out" after
  pin,        \* its argument w
  pout        \* the Summary Record it printed

genVars == <<gpc, gin, gout>>
cfgVars == <<pct_set>>
statVars == <<ppc, pin, pout>>

vars == <<now, point, cpc, starter, start, finish, wpc, w, expstart, idx, dropped, wg, timings, it, samples, agg, rps, records, accessed, genVars, cfgVars, statVars>>

\* ------------------------------------------------------------ GenerateWork
\* only the low two bits cleared
AlignLba_TwoBits(v) == v - (v % 4)

\* s() & ~0x7 on a size_t: the low three bits cleared
AlignLba(v) == v - (v % 8)

\* a draw equal to the percentage taken as a write
IsSet_AtOrBelow(v) == (v % 100) <= pct_set

\* auto set = s() % 100 < pct_set
IsSet(v) == (v % 100) < pct_set

\* the offset taken to be the gap alone
NextOffset_GapOnly(cur_us, gap) == gap

\* cur_us += a()
NextOffset(cur_us, gap) == cur_us + gap

\* while (cur_us < last_us)
GenContinue(cur_us, last_us) == cur_us < last_us

\* a and s are the successive values the samplers return; each iteration
\* consumes one value of a and two of s (first the percentage draw, then the
\* address draw).  The loop stops early only if the given draws run out.
RECURSIVE GenerateWorkFrom(_, _, _, _, _)
GenerateWorkFrom(a, s, cur_us, last_us, acc) ==
  IF GenContinue(cur_us, last_us) /\ Len(a) >= 1 /\ Len(s) >= 2
  THEN LET cur == NextOffset(cur_us, a[1])
           set == IsSet(s[1])
           wu  == [start_us |-> cur, lba |-> AlignLba(s[2]), is_set |-> set,
                   duration_us |-> 0]
       IN GenerateWorkFrom(Tail(a), Tail(Tail(s)), cur, last_us, Append(acc, wu))
  ELSE acc

GenerateWork(a, s, cur_us, last_us) == GenerateWorkFrom(a, s, cur_us, last_us, <<>>)

\* per-item bookkeeping: st is the position of the item / its execution unit,
\* calls the number of backend operations invoked for it, kind which one.
NoItem == [st |-> "pending", calls |-> 0, kind |-> "none"]

\* ------------------------------------------------------------ RunExperiment
\* the barrier sized for one party more than there are
StarterCount_OneMore(threads) == threads + 2

\* the barrier sized for the streams alone
StarterCount_StreamsOnly(threads) == threads

\* rt::WaitGroup starter(threads + 1)
StarterCount(threads) == threads + 1

\* rt::WaitGroup: Done() takes one off the count, Add(n) adds n, and Wait()
\* returns once the count is 0
WaitGroupAdd(cnt, n) == cnt + n
WaitGroupDone(cnt) == WaitGroupAdd(cnt, -1)
WaitGroupReleased(cnt) == cnt = 0

\* *reqs_per_sec before RunExperiment has written it
NoRps == [n |-> 0, elapsed |-> 0]

\* the state RunExperiment sets up (lines 115-123): the barrier is armed and
\* the worker threads exist, each about to call wf()
TrialInit ==
  /\ cpc = "ready"
  /\ starter = StarterCount(Threads)
  /\ start = 0
  /\ finish = 0
  /\ wpc = [s \in Streams |-> "gen"]
  /\ w = [s \in Streams |-> <<>>]
  /\ expstart = [s \in Streams |-> 0]
  /\ idx = [s \in Streams |-> 1]
  /\ dropped = [s \in Streams |-> 0]
  /\ wg = [s \in Streams |-> 0]
  /\ timings = [s \in Streams |-> <<>>]
  /\ it = [s \in Streams |-> <<>>]
  /\ samples = [s \in Streams |-> <<>>]
  /\ agg = <<>>
  /\ rps = NoRps
  /\ accessed = {}

\* no call of GenerateWork on its own is under way
GenIdle ==
  /\ gpc = "idle"
  /\ gin = <<>>
  /\ gout = <<>>

\* no call of PrintStatResults on its own is under way
StatIdle ==
  /\ ppc = "idle"
  /\ pin = <<>>
  /\ pout = [samples |-> 0]

\* main, lines 219-221: the arguments are stored in the globals
Configured == pct_set = ArgPctSet

Init ==
  /\ now = 0
  /\ point = 1
  /\ records = <<>>
  /\ TrialInit
  /\ GenIdle
  /\ StatIdle
  /\ Configured

\* the clock moves on; it never goes back
Tick ==
  /\ now < LastReading
  /\ now' = NextReading(now)
  /\ UNCHANGED <<point, cpc, starter, start, finish, wpc, w, expstart, idx, dropped, wg, timings, it, samples, agg, records, accessed, rps, genVars, cfgVars, statVars>>

\* ------------------------------------------------------------- ClientWorker
\* Work Items generated so far in this trial, and streams yet to call wf()
RECURSIVE SumLen(_, _)
SumLen(f, n) == IF n = 0 THEN 0 ELSE SumLen(f, n - 1) + Len(f[n])
Generated == SumLen(w, Threads)
StillToGenerate == Cardinality({s \in Streams : wpc[s] = "gen"})

\* line 54: std::vector<work_unit> w(wf()), wf as SteadyStateExperiment binds it
WorkerGen(s) ==
  /\ wpc[s] = "gen"
  /\ \E a \in ArrivalStreams, sv \in ServiceStreams :
       LET g == GenerateWork(a, sv, 0, LastUs) IN
       /\ Generated + Len(g) + StillToGenerate - 1 <= MaxItems
       /\ w' = [w EXCEPT ![s] = g]
       /\ timings' = [timings EXCEPT ![s] = [k \in 1..Len(g) |-> 0]]
       /\ it' = [it EXCEPT ![s] = [k \in 1..Len(g) |-> NoItem]]
  /\ wpc' = [wpc EXCEPT ![s] = "ready"]
  /\ UNCHANGED <<now, point, cpc, starter, start, finish, expstart, idx, dropped, wg, samples, agg, records, accessed, rps, genVars, cfgVars, statVars>>

\* line 60: starter->Done()
WorkerReady(s) ==
  /\ wpc[s] = "ready"
  /\ starter' = WaitGroupDone(starter)
  /\ wpc' = [wpc EXCEPT ![s] = "wait"]
  /\ UNCHANGED <<now, point, cpc, start, finish, w, expstart, idx, dropped,
                 wg, timings, it, samples, agg, records, accessed, rps, genVars, cfgVars, statVars>>

\* the wait group sized one short
WgInit_OneShort(wsize) == wsize - 1

\* rt::WaitGroup wg(wsize)
WgInit(wsize) == wsize

\* lines 61-68: starter->Wait() returns, expstart is read off the clock, the
\* wait group and the drop counter are set up
WorkerStart(s) ==
  /\ wpc[s] = "wait"
  /\ WaitGroupReleased(starter)
  /\ expstart' = [expstart EXCEPT ![s] = now]
  /\ wg' = [wg EXCEPT ![s] = WgInit(Len(w[s]))]
  /\ dropped' = [dropped EXCEPT ![s] = 0]
  /\ idx' = [idx EXCEPT ![s] = 1]
  /\ wpc' = [wpc EXCEPT ![s] = "loop"]
  /\ UNCHANGED <<now, point, cpc, starter, start, finish, w, timings, it,
                 samples, agg, records, accessed, rps, genVars, cfgVars, statVars>>

\* duration_cast<sec>(now - expstart).count()
Elapsed(t, t0) == t - t0

\* the tolerance itself taken as too late
ShouldDrop_AtTolerance(elapsed, start_us) == elapsed - start_us >= kMaxCatchUpUS

\* lines 77-78: ... - w[i].start_us > kMaxCatchUpUS
ShouldDrop(elapsed, start_us) == elapsed - start_us > kMaxCatchUpUS

\* i after `continue` / after the loop body: ++i
LoopNext(i) == i + 1

\* lines 70-81: the loop test, the first clock reading, the sleep if the item
\* is not yet due, and the second clock reading, on which the item is dropped
\* or goes on to be dispatched.  With offsets in whole microseconds the second
\* reading is never before the scheduled offset: either the first reading was
\* already at or past it, or rt::Sleep slept the rest and does not return
\* early; any reading from the offset on can be the second one.
Check(s) ==
  /\ wpc[s] = "loop"
  /\ idx[s] <= Len(w[s])
  /\ Elapsed(now, expstart[s]) >= w[s][idx[s]].start_us
  /\ LET e == Elapsed(now, expstart[s])
         i == idx[s]
     IN IF ShouldDrop(e, w[s][i].start_us)
        THEN /\ dropped' = [dropped EXCEPT ![s] = @ + 1]
             /\ idx' = [idx EXCEPT ![s] = LoopNext(i)]
             /\ it' = [it EXCEPT ![s][i].st = "dropped"]
             /\ wpc' = [wpc EXCEPT ![s] = "loop"]
        ELSE /\ it' = [it EXCEPT ![s][i].st = "checked"]
             /\ wpc' = [wpc EXCEPT ![s] = "dispatch"]
             /\ UNCHANGED <<dropped, idx>>
  /\ UNCHANGED <<now, point, cpc, starter, start, finish, w, expstart, wg, timings,
                 samples, agg, records, accessed, rps, genVars, cfgVars, statVars>>

\* the execution unit spawned only once the items before it have finished
Dispatch_AfterPrevious(s) ==
  /\ wpc[s] = "dispatch"
  /\ \A k \in 1..(idx[s] - 1) : it[s][k].st \in {"dropped", "ok", "failed"}
  /\ LET i == idx[s] IN
       /\ timings' = [timings EXCEPT ![s][i] = now]
       /\ it' = [it EXCEPT ![s][i].st = "spawned"]
       /\ idx' = [idx EXCEPT ![s] = LoopNext(i)]
  /\ wpc' = [wpc EXCEPT ![s] = "loop"]
  /\ UNCHANGED <<now, point, cpc, starter, start, finish, w, expstart, dropped, wg, samples, agg, records, accessed, rps, genVars, cfgVars, statVars>>

\* lines 84-86: timings[i] is read off the clock and the execution unit spawned
Dispatch(s) ==
  /\ wpc[s] = "dispatch"
  /\ LET i == idx[s] IN
       /\ timings' = [timings EXCEPT ![s][i] = now]
       /\ it' = [it EXCEPT ![s][i].st = "spawned"]
       /\ idx' = [idx EXCEPT ![s] = LoopNext(i)]
  /\ wpc' = [wpc EXCEPT ![s] = "loop"]
  /\ UNCHANGED <<now, point, cpc, starter, start, finish, w, expstart, dropped, wg, samples, agg, records, accessed, rps, genVars, cfgVars, statVars>>

\* lines 90-94: the execution unit invokes storage_write or storage_read
OpCall(s, i) ==
  /\ it[s][i].st = "spawned"
  /\ it' = [it EXCEPT ![s][i].st = "inflight",
                      ![s][i].calls = @ + 1,
                      ![s][i].kind = IF w[s][i].is_set THEN "write" ELSE "read"]
  /\ UNCHANGED <<now, point, cpc, starter, start, finish, wpc, w, expstart, idx,
                 dropped, wg, timings, samples, agg, records, accessed, rps, genVars, cfgVars, statVars>>

\* line 100: duration_cast<sec>(ts - timings[i]).count()
Latency(ts, t0) == ts - t0

\* a failed operation handed back to be issued again
OpReturn_Retry(s, i) ==
  /\ it[s][i].st = "inflight"
  /\ \E ret \in {0, -1} :
       IF ret = 0
       THEN /\ w' = [w EXCEPT ![s][i].duration_us = now - timings[s][i]]
            /\ it' = [it EXCEPT ![s][i].st = "ok"]
            /\ wg' = [wg EXCEPT ![s] = @ - 1]
       ELSE /\ it' = [it EXCEPT ![s][i].st = "spawned"]
            /\ UNCHANGED <<w, wg>>
  /\ UNCHANGED <<now, point, cpc, starter, start, finish, wpc, expstart, idx, dropped, timings, samples, agg, records, accessed, rps, genVars, cfgVars, statVars>>

\* lines 96-101: the backend returns ret, the clock is read, the latency is
\* stored if ret == 0, and wg.Done() is called
OpReturn(s, i) ==
  /\ it[s][i].st = "inflight"
  /\ \E ret \in {0, -1} :
       /\ w' = [w EXCEPT ![s][i].duration_us =
                  IF ret = 0 THEN Latency(now, timings[s][i]) ELSE @]
       /\ it' = [it EXCEPT ![s][i].st = IF ret = 0 THEN "ok" ELSE "failed"]
  /\ wg' = [wg EXCEPT ![s] = WaitGroupDone(@)]
  /\ UNCHANGED <<now, point, cpc, starter, start, finish, wpc, expstart, idx, dropped, timings, samples, agg, records, accessed, rps, genVars, cfgVars, statVars>>

\* the backend never answers this operation
OpHang(s, i) ==
  /\ it[s][i].st = "inflight"
  /\ it' = [it EXCEPT ![s][i].st = "hung"]
  /\ UNCHANGED <<now, point, cpc, starter, start, finish, wpc, w, expstart, idx,
                 dropped, wg, timings, samples, agg, records, accessed, rps, genVars, cfgVars, statVars>>

\* the drops never taken off the count
WgAfterLoop_NotApplied(cnt, ndropped) == cnt

\* wg.Add(-1 * dropped)
WgAfterLoop(cnt, ndropped) == WaitGroupAdd(cnt, -1 * ndropped)

\* line 105, reached when the loop test fails
WorkerAdd(s) ==
  /\ wpc[s] = "loop"
  /\ idx[s] > Len(w[s])
  /\ wg' = [wg EXCEPT ![s] = WgAfterLoop(@, dropped[s])]
  /\ wpc' = [wpc EXCEPT ![s] = "waitall"]
  /\ UNCHANGED <<now, point, cpc, starter, start, finish, w, expstart, idx, dropped, timings, it, samples, agg, records, accessed, rps, genVars, cfgVars, statVars>>

\* the wait over while one operation is still out
WaitAllReturns_OneLeft(cnt) == cnt <= 1

\* wg.Wait() returns
WaitAllReturns(cnt) == WaitGroupReleased(cnt)

\* lines 106-108 and 120-121: wg.Wait() returns, w is returned and stored in
\* samples[i]; the thread ends
WorkerReturn(s) ==
  /\ wpc[s] = "waitall"
  /\ WaitAllReturns(wg[s])
  /\ samples' = [samples EXCEPT ![s] = w[s]]
  /\ wpc' = [wpc EXCEPT ![s] = "ret"]
  /\ UNCHANGED <<now, point, cpc, starter, start, finish, w, expstart, idx, dropped, wg, timings, it, agg, records, accessed, rps, genVars, cfgVars, statVars>>

\* ------------------------------------------------- RunExperiment, continued
\* line 126: starter.Done()
CoordReady ==
  /\ cpc = "ready"
  /\ starter' = WaitGroupDone(starter)
  /\ cpc' = "wait"
  /\ UNCHANGED <<now, point, start, finish, wpc, w, expstart, idx, dropped,
                 wg, timings, it, samples, agg, records, accessed, rps, genVars, cfgVars, statVars>>

\* lines 127-131: starter.Wait() returns and start is read off the clock
CoordStart ==
  /\ cpc = "wait"
  /\ WaitGroupReleased(starter)
  /\ start' = now
  /\ cpc' = "join"
  /\ UNCHANGED <<now, point, starter, finish, wpc, w, expstart, idx, dropped,
                 wg, timings, it, samples, agg, records, accessed, rps, genVars, cfgVars, statVars>>

\* a join satisfied by a thread still in its wait-all
Joined_WhileWaiting(s) == wpc[s] \in {"waitall", "ret"}

\* t.Join() returns once thread t has ended
Joined(s) == wpc[s] = "ret"

\* lines 135-139: every thread is joined, then finish is read off the clock
CoordJoin ==
  /\ cpc = "join"
  /\ \A s \in Streams : Joined(s)
  /\ finish' = now
  /\ cpc' = "aggregate"
  /\ UNCHANGED <<now, point, starter, start, wpc, w, expstart, idx, dropped,
                 wg, timings, it, samples, agg, records, accessed, rps, genVars, cfgVars, statVars>>

\* lines 143-147: w.insert(w.end(), v.begin(), v.end()) for i = 0 .. threads-1
RECURSIVE Aggregate(_, _)
Aggregate(smp, n) == IF n = 0 THEN <<>> ELSE Aggregate(smp, n - 1) \o smp[n]

\* the filter taking a latency of one microsecond for none
NotCompleted_UpToOne(u) == u.duration_us <= 1

\* line 151: the predicate of remove_if
NotCompleted(u) == u.duration_us = 0

\* lines 150-152: erase(remove_if(...)): the kept elements, in their order
RECURSIVE RemoveNotCompleted(_)
RemoveNotCompleted(v) ==
  IF v = <<>> THEN <<>>
  ELSE IF NotCompleted(Head(v)) THEN RemoveNotCompleted(Tail(v))
       ELSE <<Head(v)>> \o RemoveNotCompleted(Tail(v))

\* lines 143-158: the samples are concatenated and filtered; w.size() is the
\* numerator of *reqs_per_sec
CoordAggregate ==
  /\ cpc = "aggregate"
  /\ LET filtered == RemoveNotCompleted(Aggregate(samples, Threads)) IN
       /\ agg' = filtered
       /\ rps' = [n |-> Len(filtered), elapsed |-> Elapsed(finish, start)]
  /\ cpc' = "print"
  /\ UNCHANGED <<now, point, starter, start, finish, wpc, w, expstart, idx, dropped, wg, timings, it, samples, records, accessed, genVars, cfgVars, statVars>>

\* --------------------------------------------------------- PrintStatResults
\* the rank rounded up instead of cut off
Rank_RoundedUp(count, num, den) == (count * num + den - 1) \div den

\* w[count * p] with p = num/den: the double product truncated to an index
Rank(count, num, den) == (count * num) \div den

\* the elements PrintStatResults reads, lines 171-176; w.size() - 1 wraps to
\* SIZE_MAX when the vector is empty, written -1 here
RanksRead(count) ==
  { Rank(count, 9, 10), Rank(count, 99, 100), Rank(count, 999, 1000),
    Rank(count, 9999, 10000), 0, count - 1 }

\* lines 161-184 (called at line 199): the ranks are read and one record is
\* printed.  Reading an element the vector does not have is undefined: the
\* build either prints whatever it read or stops the process.
PrintStat ==
  /\ cpc = "print"
  /\ accessed' = RanksRead(Len(agg))
  /\ \/ /\ records' = Append(records, Len(agg))
        /\ cpc' = "printed"
     \/ /\ \E r \in RanksRead(Len(agg)) : r \notin 0..(Len(agg) - 1)
        /\ records' = records
        /\ cpc' = "crashed"
  /\ UNCHANGED <<now, point, starter, start, finish, wpc, w, expstart, idx, dropped, wg, timings, it, samples, agg, rps, genVars, cfgVars, statVars>>

\* ------------------------------------------------------------ ClientHandler
\* lines 203-204: the next rate point, with a fresh RunExperiment whose locals
\* are as TrialInit describes them, or the end
NextPoint ==
  /\ cpc = "printed"
  /\ IF point < NumPoints
     THEN /\ point' = point + 1
          /\ cpc' = "ready"
          /\ starter' = StarterCount(Threads)
          /\ start' = 0
          /\ finish' = 0
          /\ wpc' = [s \in Streams |-> "gen"]
          /\ w' = [s \in Streams |-> <<>>]
          /\ expstart' = [s \in Streams |-> 0]
          /\ idx' = [s \in Streams |-> 1]
          /\ dropped' = [s \in Streams |-> 0]
          /\ wg' = [s \in Streams |-> 0]
          /\ timings' = [s \in Streams |-> <<>>]
          /\ it' = [s \in Streams |-> <<>>]
          /\ samples' = [s \in Streams |-> <<>>]
          /\ agg' = <<>>
          /\ rps' = NoRps
          /\ accessed' = {}
     ELSE /\ cpc' = "done"
          /\ UNCHANGED <<point, starter, start, finish, wpc, w, expstart, idx,
                         dropped, wg, timings, it, samples, agg, rps,
                         accessed>>
  /\ UNCHANGED <<now, records, genVars, cfgVars, statVars>>

Next ==
  \/ Tick
  \/ \E s \in Streams : WorkerGen(s)
  \/ \E s \in Streams : WorkerReady(s)
  \/ \E s \in Streams : WorkerStart(s)
  \/ \E s \in Streams : Check(s)
  \/ \E s \in Streams : Dispatch(s)
  \/ \E s \in Streams : \E i \in 1..Len(w[s]) : OpCall(s, i)
  \/ \E s \in Streams : \E i \in 1..Len(w[s]) : OpReturn(s, i)
  \/ \E s \in Streams : \E i \in 1..Len(w[s]) : OpHang(s, i)
  \/ \E s \in Streams : WorkerAdd(s)
  \/ \E s \in Streams : WorkerReturn(s)
  \/ CoordReady
  \/ CoordStart
  \/ CoordJoin
  \/ CoordAggregate
  \/ PrintStat
  \/ NextPoint

Spec == Init /\ [][Next]_vars

\* ------------------------------------------------- one trial, run fairly
\* the clock moves on.  The last reading stands for any later time, at which
\* every item of a stream that has started is due; it is read only once every
\* stream has started, so that no stream is left without a later reading.
TickLive ==
  /\ now < LastReading
  /\ NextReading(now) = LastReading => \A s \in Streams : wpc[s] \notin {"gen", "ready", "wait"}
  /\ now' = NextReading(now)
  /\ UNCHANGED <<point, cpc, starter, start, finish, wpc, w, expstart, idx, dropped, wg, timings, it, samples, agg, records, accessed, rps, genVars, cfgVars, statVars>>

\* the steps of one stream, of its execution units, and of the Coordinator up
\* to the record of the trial; every operation that was called returns
StreamStep(s) ==
  \/ WorkerGen(s)
  \/ WorkerReady(s)
  \/ WorkerStart(s)
  \/ Check(s)
  \/ Dispatch(s)
  \/ WorkerAdd(s)
  \/ WorkerReturn(s)

UnitStep(s) ==
  \/ \E i \in 1..Len(w[s]) : OpCall(s, i)
  \/ \E i \in 1..Len(w[s]) : OpReturn(s, i)

CoordStep ==
  \/ CoordReady
  \/ CoordStart
  \/ CoordJoin
  \/ CoordAggregate
  \/ PrintStat

NextLive ==
  \/ TickLive
  \/ \E s \in Streams : StreamStep(s)
  \/ \E s \in Streams : UnitStep(s)
  \/ CoordStep

\* fair scheduling: time passes, and a thread that can take a step, or an
\* operation that can be called or can return, is not put off for ever
Fairness ==
  /\ WF_vars(TickLive)
  /\ \A s \in Streams : WF_vars(StreamStep(s))
  /\ \A s \in Streams : WF_vars(UnitStep(s))
  /\ WF_vars(CoordStep)

SpecLive == Init /\ [][NextLive]_vars /\ Fairness

\* ---------------------------------------------- GenerateWork called on its own
\* longest run of draws handed to GenerateWork, and largest horizon
GenLen == 3
MaxHorizon == 3

\* gaps a() returns, and the streams of values s() returns
GenGaps == {-1, 0, 1, 2}
GenServiceStreams ==
  { [k \in 1..(2 * GenLen) |-> IF k % 2 = 1 THEN 7 ELSE 150],
    [k \in 1..(2 * GenLen) |-> IF k % 2 = 1 THEN 150 ELSE 7 + 8 * k],
    [k \in 1..(2 * GenLen) |-> 99 + 100 * k],
    [k \in 1..(2 * GenLen) |-> IF k % 2 = 1 THEN 0 ELSE total_block_count + 2 - k] }

\* write percentages main can store: none, half, all
PctSets == {0, ArgPctSet, 100}

RECURSIVE SumSeq(_)
SumSeq(q) == IF q = <<>> THEN 0 ELSE Head(q) + SumSeq(Tail(q))

\* the arguments: the gaps given carry cur_us to the horizon, so the loop ends
\* by its own test and not for want of draws
GenInputs ==
  { in \in [a : [1..GenLen -> GenGaps], s : GenServiceStreams,
            cur_us : 0..1, last_us : 0..MaxHorizon] :
      in.cur_us + SumSeq(in.a) >= in.last_us }

InitGen ==
  /\ now = 0
  /\ point = 1
  /\ records = <<>>
  /\ TrialInit
  /\ gpc = "in"
  /\ gin \in GenInputs
  /\ gout = <<>>
  /\ StatIdle
  /\ pct_set \in PctSets

\* lines 40-50, one call
GenCall ==
  /\ gpc = "in"
  /\ gout' = GenerateWork(gin.a, gin.s, gin.cur_us, gin.last_us)
  /\ gpc' = "out"
  /\ UNCHANGED <<now, point, cpc, starter, start, finish, wpc, w, expstart, idx,
                 dropped, wg, timings, it, samples, agg, rps, records,
                 accessed, gin, cfgVars, statVars>>

NextGen == GenCall

SpecGen == InitGen /\ [][NextGen]_vars

\* ------------------------------------------ PrintStatResults called on its own
\* the duration_us of the elements of v, in the order of v
Durations(v) == [k \in 1..Len(v) |-> v[k].duration_us]

\* the latencies left in the order they were given
SortByDuration_AsGiven(v) == Durations(v)

\* lines 163-165: std::sort with the comparator s1.duration_us < s2.duration_us.
\* std::sort is not stable: the order it leaves elements of equal duration_us
\* in is unspecified, and nothing after line 165 reads any other field, so the
\* sorted vector is kept as what it determines, the duration_us of w[0],
\* w[1], ... after the sort. Rank r (from 1) holds the latency x with fewer
\* than r elements below it and at least r elements at or below it.
SortByDuration(v) ==
  LET d == Durations(v)
  IN [r \in 1..Len(v) |->
        CHOOSE x \in { d[k] : k \in 1..Len(v) } :
          /\ Cardinality({ j \in 1..Len(v) : d[j] < x }) < r
          /\ r <= Cardinality({ j \in 1..Len(v) : d[j] <= x })]

\* lines 166-168: std::accumulate of duration_us from 0.0, over the sorted
\* latencies d
RECURSIVE SumDuration(_)
SumDuration(d) == IF d = <<>> THEN 0 ELSE Head(d) + SumDuration(Tail(d))

\* line 169: sum / w.size(), kept as the quotient's two terms
Mean(sum, size) == [num |-> sum, den |-> size]

\* what stands for a value read outside the vector
OutOfRange == -1

\* w[r].duration_us of the sorted vector, r counted from 0
DurationAt(d, r) == IF r \in 0..(Len(d) - 1) THEN d[r + 1] ELSE OutOfRange

\* lines 161-184: the Summary Record PrintStatResults prints for w
PrintStatResults(v) ==
  LET sorted == SortByDuration(v)
      count  == Len(sorted)
  IN [ samples |-> count,
       min     |-> DurationAt(sorted, 0),
       mean    |-> Mean(SumDuration(sorted), count),
       p90     |-> DurationAt(sorted, Rank(count, 9, 10)),
       p99     |-> DurationAt(sorted, Rank(count, 99, 100)),
       p999    |-> DurationAt(sorted, Rank(count, 999, 1000)),
       p9999   |-> DurationAt(sorted, Rank(count, 9999, 10000)),
       max     |-> DurationAt(sorted, count - 1) ]

\* longest vector of freely chosen latencies, longest ramp, longest vector of
\* two alternating latencies, and the length of the one long vector
StatLen == 3
RampLen == 12
TieLen == 17
LongLen == 101

\* the k-th completed sample of a vector, with latency d: the samples of one
\* vector differ in lba
Sample(d, k) == [start_us |-> 0, lba |-> 8 * k, is_set |-> FALSE, duration_us |-> d]

StatLatencies == {10, 20, 30}
ExampleLatencies == <<40, 10, 60, 20, 50, 30>>

\* the vectors handed to PrintStatResults: every short vector over
\* StatLatencies, the six latencies 10..60 out of order, falling ramps, ramps
\* with every other element raised, vectors of two alternating latencies, and
\* one long falling ramp
StatInputs ==
  { [k \in 1..n |-> Sample(f[k], k)] :
      n \in 1..StatLen, f \in [1..StatLen -> StatLatencies] }
  \cup { [k \in 1..6 |-> Sample(ExampleLatencies[k], k)] }
  \cup { [k \in 1..n |-> Sample(n + 1 - k, k)] : n \in 1..RampLen }
  \cup { [k \in 1..n |-> Sample(IF k % 2 = 0 THEN 100 + k ELSE n + 1 - k, k)] :
            n \in 1..RampLen }
  \cup { [k \in 1..n |-> Sample(IF k % 2 = 0 THEN 2 ELSE 1, k)] : n \in 1..TieLen }
  \cup { [k \in 1..LongLen |-> Sample(2 * (LongLen + 1 - k), k)] }

NoRecord == [samples |-> 0]

InitStat ==
  /\ now = 0
  /\ point = 1
  /\ records = <<>>
  /\ TrialInit
  /\ GenIdle
  /\ Configured
  /\ ppc = "in"
  /\ pin \in StatInputs
  /\ pout = NoRecord

\* lines 161-184, one call
StatCall ==
  /\ ppc = "in"
  /\ pout' = PrintStatResults(pin)
  /\ ppc' = "out"
  /\ UNCHANGED <<now, point, cpc, starter, start, finish, wpc, w, expstart, idx,
                 dropped, wg, timings, it, samples, agg, rps, records,
                 accessed, genVars, cfgVars, pin>>

NextStat == StatCall

SpecStat == InitStat /\ [][NextStat]_vars

\* ==================================================================== claims
\* positions of an item whose execution unit has finished, or that has none
Settled(s, i) == it[s][i].st \in {"dropped", "ok", "failed"}
Items(s) == 1..Len(w[s])
AfterJoin == cpc \in {"aggregate", "print", "printed", "crashed", "done"}
Started(s) == wpc[s] \in {"loop", "dispatch", "waitall", "ret"}
Signalled(s) == wpc[s] \notin {"gen", "ready"}

\* C1: a stream has returned its Sample Set only if every item it dispatched has
\* completed (its operation returned), and RunExperiment aggregates and filters
\* only when that is so for every stream.
C1_ReturnAfterAllCompleted ==
  /\ \A s \in Streams :
       wpc[s] = "ret" =>
         /\ samples[s] = w[s]
         /\ \A i \in Items(s) : Settled(s, i)
  /\ AfterJoin => \A s \in Streams : wpc[s] = "ret" /\ \A i \in Items(s) : Settled(s, i)

\* the Coordinator is about to aggregate; both streams dispatched operations,
\* one stream also dropped an item
C1_Witness ==
  /\ cpc = "aggregate"
  /\ \A s \in Streams : \E i \in Items(s) : it[s][i].st \in {"ok", "failed"}
  /\ \E s \in Streams : \E i \in Items(s) : it[s][i].st = "dropped"

\* C2: the barrier counts N+1 parties; a stream is past the barrier (has read
\* expstart, replays items) only when every stream has generated its Schedule
\* and signalled and the Coordinator has signalled, and the Coordinator has
\* read start only then; no stream generates its Schedule in the timed interval.
C2_BarrierHoldsAll ==
  /\ cpc \in {"ready", "wait"} =>
       starter = (Threads + 1) - Cardinality({s \in Streams : Signalled(s)})
                               - (IF cpc = "ready" THEN 0 ELSE 1)
  /\ \A s \in Streams :
       Started(s) => /\ cpc # "ready"
                     /\ \A u \in Streams : Signalled(u) /\ w[u] # <<>>
  /\ cpc \notin {"ready", "wait"} => \A u \in Streams : Signalled(u) /\ w[u] # <<>>
  /\ \A s \in Streams : ~Started(s) => expstart[s] = 0 /\ idx[s] = 1 /\ \A i \in Items(s) : it[s][i].st = "pending"
  /\ cpc \in {"ready", "wait"} => start = 0

\* every stream is past the barrier and replaying, the Coordinator has read
\* start and waits in Join
C2_Witness ==
  /\ cpc = "join"
  /\ \A s \in Streams : wpc[s] \in {"loop", "dispatch"}
  /\ \E s \in Streams : expstart[s] > 0

\* C3: the step that re-measures the elapsed time drops item i exactly when
\* elapsed - scheduled_offset exceeds kMaxCatchUpUS; a drop counts the item,
\* leaves it unissued with latency 0 and moves on to item i+1; any other item
\* goes on to be dispatched, and has been issued by the time the stream returns.
C3_DropIffLate ==
  [][\A s \in Streams :
       /\ (wpc[s] = "loop" /\ (wpc'[s] = "dispatch" \/ idx'[s] # idx[s])) =>
            LET i == idx[s]
                late == (now - expstart[s]) - w[s][i].start_us > kMaxCatchUpUS
            IN /\ late <=> it'[s][i].st = "dropped"
               /\ late => /\ dropped'[s] = dropped[s] + 1
                          /\ wpc'[s] = "loop"
                          /\ idx'[s] = i + 1
               /\ ~late => /\ dropped'[s] = dropped[s]
                           /\ wpc'[s] = "dispatch"
                           /\ idx'[s] = i
       /\ \A i \in 1..Len(w'[s]) :
            /\ it'[s][i].st = "dropped" => it'[s][i].calls = 0 /\ w'[s][i].duration_us = 0
            /\ (wpc'[s] = "ret" /\ it'[s][i].st # "dropped") => it'[s][i].calls = 1
            /\ (i \in Items(s) /\ it[s][i].st = "dropped") => it'[s][i].st = "dropped"
    ]_vars

\* a stream returned after dropping its first item and completing its second
C3_Witness ==
  \E s \in Streams :
    /\ wpc[s] = "ret"
    /\ Len(w[s]) = 2
    /\ it[s][1].st = "dropped"
    /\ it[s][2].st = "ok"
    /\ dropped[s] = 1

\* C4: once the trial is over, an item's measured_latency is 0 exactly when it
\* was dropped or its operation reported failure; an item whose operation
\* succeeded has a non-zero latency.
C4_ZeroIffNotCompleted ==
  AfterJoin =>
    \A s \in Streams : \A i \in Items(s) :
      w[s][i].duration_us = 0 <=> it[s][i].st \in {"dropped", "failed"}

\* what does hold of the latency field: it is completion minus dispatch reading
\* for a success, written once, and stays 0 for a drop or a failure
C4_LatencyIsDifference ==
  [][\A s \in Streams : \A i \in Items(s) :
       /\ (it[s][i].st = "inflight" /\ it'[s][i].st = "ok") =>
            w'[s][i].duration_us = now - timings[s][i]
       /\ (it[s][i].st = "inflight" /\ it'[s][i].st = "failed") =>
            w'[s][i].duration_us = 0
       /\ (Len(w'[s]) = Len(w[s]) /\ it'[s][i].st = it[s][i].st) =>
            w'[s][i].duration_us = w[s][i].duration_us
    ]_vars

\* C5: the Sample Set RunExperiment returns holds exactly the items with
\* measured_latency # 0, stream after stream in their order, and its size is
\* the numerator of the achieved throughput.
NonZeroUpTo(s, i) == Cardinality({k \in 1..i : samples[s][k].duration_us # 0})
NonZeroBefore(s) ==
  LET Sum[u \in 0..Threads] ==
        IF u = 0 THEN 0 ELSE Sum[u - 1] + NonZeroUpTo(u, Len(samples[u]))
  IN Sum[s - 1]
C5_ExactlyNonZero ==
  cpc \in {"print", "printed", "crashed", "done"} =>
    /\ Len(agg) = NonZeroBefore(Threads + 1)
    /\ rps.n = Len(agg)
    /\ \A k \in 1..Len(agg) : agg[k].duration_us # 0
    /\ \A s \in Streams : \A i \in 1..Len(samples[s]) :
         samples[s][i].duration_us # 0 =>
           agg[NonZeroBefore(s) + NonZeroUpTo(s, i)] = samples[s][i]
    /\ cpc \in {"printed", "done"} => records[Len(records)] = Len(agg)

\* filtering is done; both streams contributed a sample and one item with
\* latency 0 was left out
C5_Witness ==
  /\ cpc = "print"
  /\ \A s \in Streams : \E i \in 1..Len(samples[s]) : samples[s][i].duration_us # 0
  /\ \E s \in Streams : \E i \in 1..Len(samples[s]) : samples[s][i].duration_us = 0
  /\ Len(agg) = 2

\* C6: with an empty completed-sample set PrintStatResults reads no element of
\* the sorted sequence and reports a record with sample_count 0.
C6_EmptyNotIndexed ==
  (cpc \in {"printed", "crashed"} /\ agg = <<>>) =>
    /\ accessed = {}
    /\ cpc = "printed"
    /\ records[Len(records)] = 0

\* C7: every stream that has read its start instant holds the same value, the
\* one the Coordinator wrote.
C7_OneSharedStart ==
  /\ \A s, u \in Streams : (Started(s) /\ Started(u)) => expstart[s] = expstart[u]
  /\ \A s \in Streams : (Started(s) /\ cpc \notin {"ready", "wait"}) => expstart[s] = start

\* what does hold of the start instants: a stream's expstart is read off the
\* clock by the stream itself (line 63), once, after all N+1 parties have
\* signalled, and nothing changes it while the stream runs; start is read by
\* the Coordinator alone (line 131), once, after the release.
C7_OwnStartWrittenOnce ==
  [][\A s \in Streams :
       /\ expstart'[s] # expstart[s] =>
            \/ /\ wpc[s] = "wait" /\ wpc'[s] = "loop"
               /\ expstart'[s] = now
               /\ cpc # "ready"
               /\ \A u \in Streams : Signalled(u)
            \/ cpc = "printed" /\ cpc' = "ready"
       /\ (wpc[s] = "wait" /\ wpc'[s] = "loop") => expstart'[s] = now
       /\ start' # start =>
            \/ cpc = "wait" /\ cpc' = "join" /\ start' = now
                 /\ \A u \in Streams : Signalled(u)
            \/ cpc = "printed" /\ cpc' = "ready"
    ]_vars

\* C8: while an operation that never completes is in flight its stream does not
\* return, the Coordinator stays in the barrier or the join, and no Summary
\* Record is printed, for this rate point or a later one: the sweep does not
\* move on.
Hung(s) == \E i \in Items(s) : it[s][i].st = "hung"
C8_HungBlocksSweep ==
  [][(\E s \in Streams : Hung(s)) =>
       /\ \A s \in Streams : Hung(s) => Hung(s)' /\ wpc'[s] \notin {"ret"} /\ samples'[s] = <<>>
       /\ cpc' \in {"wait", "join"}
       /\ records' = records
       /\ point' = point
       /\ Len(records') = point - 1
    ]_vars

\* second rate point: one stream has returned, the other waits for an
\* operation that never completes, the Coordinator is joining
C8_Witness ==
  /\ point = 2
  /\ cpc = "join"
  /\ \E s, u \in Streams :
       /\ wpc[s] = "waitall" /\ Hung(s)
       /\ wpc[u] = "ret"

\* C9: every item causes at most one backend operation, a write if is_set and
\* a read otherwise; a dropped item causes none, and an item whose operation
\* failed is not issued again.
C9_AtMostOneOperation ==
  \A s \in Streams : \A i \in Items(s) :
    /\ it[s][i].calls <= 1
    /\ it[s][i].st \in {"pending", "checked", "spawned", "dropped"} => it[s][i].calls = 0
    /\ it[s][i].st \in {"inflight", "hung", "ok", "failed"} =>
         /\ it[s][i].calls = 1
         /\ it[s][i].kind = IF w[s][i].is_set THEN "write" ELSE "read"

\* a stream returned after a write that failed, issued once, and a read that
\* succeeded
C9_Witness ==
  \E s \in Streams :
    /\ wpc[s] = "ret"
    /\ Len(w[s]) = 2
    /\ it[s][1].st = "failed" /\ it[s][1].kind = "write"
    /\ it[s][2].st = "ok" /\ it[s][2].kind = "read"

\* C10: no item of a generated Schedule has a scheduled_offset beyond last_us.
C10_WithinHorizon ==
  gpc = "out" => \A k \in 1..Len(gout) : gout[k].start_us <= gin.last_us

\* the gaps GenerateWork consumed for the Schedule it returned
NonNegativeGaps == \A k \in 1..Len(gout) : gin.a[k] >= 0

\* C11: with gaps that are never negative the scheduled_offset never decreases
\* along the Schedule: the first offset is cur_us plus the first gap and every
\* later offset is the one before plus the next gap.
C11_OffsetsAccumulate ==
  (gpc = "out" /\ NonNegativeGaps) =>
    /\ Len(gout) >= 1 => gout[1].start_us = gin.cur_us + gin.a[1]
    /\ \A k \in 1..(Len(gout) - 1) :
         /\ gout[k + 1].start_us = gout[k].start_us + gin.a[k + 1]
         /\ gout[k].start_us <= gout[k + 1].start_us

\* a Schedule of three items from non-negative gaps, two of them at the same
\* offset and the third later
C11_Witness ==
  /\ gpc = "out"
  /\ NonNegativeGaps
  /\ Len(gout) = 3
  /\ gin.cur_us = 1
  /\ gout[1].start_us = gout[2].start_us
  /\ gout[2].start_us < gout[3].start_us

\* largest sample count the ranks are computed for
MaxCount == 12000

\* the rank fractions PrintStatResults uses, as num/den
Percentiles == { <<9, 10>>, <<99, 100>>, <<999, 1000>>, <<9999, 10000>> }

\* d holds the latencies of the elements of u, each as often, in
\* non-decreasing order
SortedPermutation(d, u) ==
  /\ Len(d) = Len(u)
  /\ \A k \in 1..(Len(d) - 1) : d[k] <= d[k + 1]
  /\ \A x \in { u[k].duration_us : k \in 1..Len(u) } \cup { d[k] : k \in 1..Len(d) } :
       Cardinality({ k \in 1..Len(u) : u[k].duration_us = x })
         = Cardinality({ k \in 1..Len(d) : d[k] = x })

\* r is count * num/den with the fraction cut off, and an index of the vector
FloorRank(r, count, num, den) ==
  /\ r * den <= count * num
  /\ count * num < (r + 1) * den
  /\ r \in 0..(count - 1)

\* C12: for a non-empty Sample Set the record holds the element at rank 0 of
\* the sorted sequence as min, the one at rank count-1 as max, sum/count as
\* mean and the element at rank floor(count*p) for each percentile, every
\* such rank being an index of the sequence; latencies 10..60 give min 10,
\* max 60, mean 35 and p90 60.
C12_ReducerRanks ==
  /\ \A c \in 1..MaxCount : \A p \in Percentiles : FloorRank(Rank(c, p[1], p[2]), c, p[1], p[2])
  /\ ppc = "out" =>
       LET n == Len(pin)
           s == SortByDuration(pin)
       IN /\ n >= 1
          /\ SortedPermutation(s, pin)
          /\ pout.samples = n
          /\ pout.min = s[1]
          /\ pout.max = s[n]
          /\ pout.mean = [num |-> SumDuration(Durations(pin)), den |-> n]
          /\ pout.p90 = s[Rank(n, 9, 10) + 1]
          /\ pout.p99 = s[Rank(n, 99, 100) + 1]
          /\ pout.p999 = s[Rank(n, 999, 1000) + 1]
          /\ pout.p9999 = s[Rank(n, 9999, 10000) + 1]
          /\ { pin[k].duration_us : k \in 1..n } = {10, 20, 30, 40, 50, 60} /\ n = 6 =>
               /\ pout.min = 10
               /\ pout.max = 60
               /\ pout.mean.num = 35 * pout.mean.den
               /\ Rank(n, 9, 10) = 5
               /\ pout.p90 = 60

\* the record printed for the latencies 10..60 given out of order
C12_Witness ==
  /\ ppc = "out"
  /\ Len(pin) = 6
  /\ pin[1].duration_us = 40
  /\ pout.samples = 6
  /\ pout.min = 10
  /\ pout.p90 = 60
  /\ pout.mean = [num |-> 210, den |-> 6]

\* rank fractions num/den below 1, in tenths and in halves, with the four
\* PrintStatResults uses
Fractions == Percentiles \cup { <<k, 10>> : k \in 0..9 } \cup { <<0, 2>>, <<1, 2>> }

\* C13: for a non-empty Sample Set min <= p90 <= p99 <= p999 <= p9999 <= max,
\* and for any two rank fractions p1 < p2 the element at rank floor(count*p1)
\* of the sorted sequence is at most the one at rank floor(count*p2).
C13_PercentilesMonotone ==
  ppc = "out" =>
    LET n == Len(pin)
        s == SortByDuration(pin)
    IN /\ pout.min <= pout.p90
       /\ pout.p90 <= pout.p99
       /\ pout.p99 <= pout.p999
       /\ pout.p999 <= pout.p9999
       /\ pout.p9999 <= pout.max
       /\ pout.min # OutOfRange
       /\ \A f, g \in Fractions :
            f[1] * g[2] < g[1] * f[2] =>
              /\ Rank(n, f[1], f[2]) <= Rank(n, g[1], g[2])
              /\ DurationAt(s, Rank(n, f[1], f[2])) <= DurationAt(s, Rank(n, g[1], g[2]))
              /\ DurationAt(s, Rank(n, f[1], f[2])) # OutOfRange

\* the record for the long falling ramp: min, p90, p99 and max all differ
C13_Witness ==
  /\ ppc = "out"
  /\ Len(pin) = LongLen
  /\ pin[1].duration_us > pin[LongLen].duration_us
  /\ pout.min < pout.p90
  /\ pout.p90 < pout.p99
  /\ pout.p99 < pout.max

\* item i of stream s has been handed to an execution unit
Dispatched(s, i) == it[s][i].st \in {"spawned", "inflight", "hung", "ok", "failed"}

\* the address draw and the percentage draw GenerateWork consumed for item k
AddressDraw(k) == gin.s[2 * k]
PercentageDraw(k) == gin.s[2 * k - 1]

\* C15: every item's block address is a multiple of 8, and it is the address
\* draw with nothing but the low three bits cleared.
C15_AddressAligned ==
  gpc = "out" =>
    \A k \in 1..Len(gout) :
      /\ gout[k].lba % 8 = 0
      /\ gout[k].lba <= AddressDraw(k)
      /\ AddressDraw(k) - gout[k].lba < 8

\* a Schedule whose first address is the largest draw, already aligned, and
\* whose second address had low bits to clear
C15_Witness ==
  /\ gpc = "out"
  /\ Len(gout) >= 2
  /\ AddressDraw(1) = total_block_count
  /\ gout[1].lba = total_block_count
  /\ AddressDraw(2) % 8 # 0
  /\ gout[2].lba < AddressDraw(2)

\* C16: an item is a write exactly when its percentage draw modulo 100 is
\* below pct_set; with pct_set 0 no item is a write and with pct_set 100 every
\* item is.
C16_WriteIffBelowPct ==
  gpc = "out" =>
    /\ \A k \in 1..Len(gout) :
         gout[k].is_set <=> (PercentageDraw(k) % 100) < pct_set
    /\ pct_set = 0 => \A k \in 1..Len(gout) : ~gout[k].is_set
    /\ pct_set = 100 => \A k \in 1..Len(gout) : gout[k].is_set

\* a Schedule of three items generated with pct_set 0 from percentage draws
\* of 0: none is a write
C16_Witness ==
  /\ gpc = "out"
  /\ pct_set = 0
  /\ Len(gout) = 3
  /\ \A k \in 1..3 : PercentageDraw(k) % 100 = 0 /\ ~gout[k].is_set

\* the execution unit of item i of stream s has made its backend call
Called(s, i) == it[s][i].st \in {"inflight", "hung", "ok", "failed"}

\* C17: within one stream the backend operations are issued in Schedule
\* order: when the storage call of item j is made, the call of every
\* dispatched item before it has been made; and a stream that is about to
\* dispatch can do so whatever its earlier operations are doing.
C17_IssuedInOrder ==
  [][\A s \in Streams :
       /\ wpc[s] = "dispatch" => ENABLED Dispatch(s)
       /\ \A j \in Items(s) :
            (j <= Len(it'[s]) /\ ~Called(s, j) /\ it'[s][j].st = "inflight") =>
              \A i \in 1..(j - 1) : Dispatched(s, i) => Called(s, i)
    ]_vars

\* C17 as amended: a stream hands its items to execution units in Schedule
\* order: when item j is dispatched every item before it has been dispatched
\* or dropped, none after it has been touched, and the offsets and dispatch
\* readings of the items dispatched before it are not larger than its own; a
\* stream that is about to dispatch can do so whatever its earlier operations
\* are doing.  The storage calls are made by the units: a unit that has been
\* handed its item can make its call whether or not the units of earlier
\* items have made theirs, and an operation in flight can complete whatever
\* the other operations of the stream are doing.
C17_DispatchInOrder ==
  [][\A s \in Streams :
       /\ wpc[s] = "dispatch" => ENABLED Dispatch(s)
       /\ \A j \in Items(s) :
            /\ it[s][j].st = "spawned" => ENABLED OpCall(s, j)
            /\ it[s][j].st = "inflight" => ENABLED OpReturn(s, j)
       /\ \A j \in Items(s) :
            (j <= Len(it'[s]) /\ it[s][j].st # "spawned" /\ it'[s][j].st = "spawned") =>
              /\ timings'[s][j] = now
              /\ \A i \in 1..(j - 1) :
                   /\ Dispatched(s, i) \/ it[s][i].st = "dropped"
                   /\ Dispatched(s, i) =>
                        /\ timings[s][i] <= timings'[s][j]
                        /\ w[s][i].start_us <= w[s][j].start_us
              /\ \A k \in (j + 1)..Len(w[s]) : it[s][k].st = "pending"
    ]_vars

\* both items of a stream have been handed to their units, the first before
\* the second; the second's storage call has been made and has completed
\* while the unit of the first has not made its call yet
C17_Witness ==
  \E s \in Streams :
    /\ Len(w[s]) = 2
    /\ it[s][1].st = "spawned"
    /\ it[s][2].st = "ok"
    /\ timings[s][1] < timings[s][2]

\* C18: an item's measured_latency is written only by the return of that
\* item's own operation, once, from 0, and never after the item is settled;
\* the stream copies its items out, and the Coordinator reads them, only in
\* steps before which no operation of the stream is dispatched and unfinished.
C18_SingleWriterNoRace ==
  [][\A s \in Streams :
       /\ Len(w'[s]) = Len(w[s]) =>
            \A i \in Items(s) :
              /\ w'[s][i].duration_us # w[s][i].duration_us =>
                   /\ it[s][i].st = "inflight" /\ it'[s][i].st = "ok"
                   /\ w[s][i].duration_us = 0
                   /\ \A k \in Items(s) \ {i} : w'[s][k] = w[s][k]
                   /\ wpc[s] \in {"loop", "dispatch", "waitall"}
                   /\ cpc \in {"ready", "wait", "join"}
              /\ Settled(s, i) => w'[s][i] = w[s][i] /\ it'[s][i] = it[s][i]
       /\ (samples[s] = <<>> /\ wpc'[s] = "ret") =>
            /\ \A i \in Items(s) : Settled(s, i)
            /\ samples'[s] = w[s]
       /\ cpc' \in {"aggregate", "print"} =>
            /\ \A i \in Items(s) : Settled(s, i)
            /\ wpc[s] = "ret"
            /\ samples[s] = w[s]
    ]_vars

\* the Coordinator has read the samples; a stream's first item carries the
\* latency its execution unit wrote, its second was never written
C18_Witness ==
  /\ cpc = "print"
  /\ \E s \in Streams :
       /\ Len(samples[s]) = 2
       /\ it[s][1].st = "ok" /\ samples[s][1].duration_us > 0
       /\ it[s][2].st = "failed" /\ samples[s][2].duration_us = 0
       /\ agg # <<>>

\* items of stream s dispatched, finished (success or failure), and dropped
NumDispatched(s) == Cardinality({ i \in Items(s) : Dispatched(s, i) })
NumFinished(s) == Cardinality({ i \in Items(s) : it[s][i].st \in {"ok", "failed"} })
NumDropped(s) == Cardinality({ i \in Items(s) : it[s][i].st = "dropped" })

\* C19: the count of a stream's wait group is never negative, generated =
\* dropped + dispatched holds always, and from the drop adjustment on the
\* count is the number of dispatched operations not yet finished, the wait
\* returning exactly when that number is 0.
C19_GeneratedAlwaysAccounted ==
  \A s \in Streams :
    Started(s) =>
      /\ wg[s] >= 0
      /\ Len(w[s]) = NumDropped(s) + NumDispatched(s)
      /\ wpc[s] \in {"waitall", "ret"} =>
           wg[s] = NumDispatched(s) - NumFinished(s)
      /\ wpc[s] = "waitall" =>
           (ENABLED WorkerReturn(s) <=> NumDispatched(s) = NumFinished(s))

\* C19 as amended: the count of a stream's wait group starts at the Schedule
\* size and is never negative, and the drop counter is the number of dropped
\* items; until the drop adjustment the count is the Schedule size less the
\* finished operations, and the items the loop has passed are the dropped and
\* the dispatched ones; from the adjustment on generated = dropped +
\* dispatched and the count is the number of dispatched operations not yet
\* finished; the wait can return exactly when that number is 0.
C19_WaitGroupAccounting ==
  \A s \in Streams :
    Started(s) =>
      /\ wg[s] >= 0
      /\ dropped[s] = NumDropped(s)
      /\ NumFinished(s) <= NumDispatched(s)
      /\ wpc[s] \in {"loop", "dispatch"} =>
           /\ wg[s] = Len(w[s]) - NumFinished(s)
           /\ idx[s] - 1 = NumDropped(s) + NumDispatched(s)
      /\ wpc[s] \in {"waitall", "ret"} =>
           /\ Len(w[s]) = NumDropped(s) + NumDispatched(s)
           /\ wg[s] = NumDispatched(s) - NumFinished(s)
      /\ wpc[s] = "waitall" =>
           (ENABLED WorkerReturn(s) <=> NumDispatched(s) = NumFinished(s))
      /\ wpc[s] = "ret" => wg[s] = 0 /\ NumDispatched(s) = NumFinished(s)

\* a stream past its drop adjustment waits with a count of 1: of its two
\* items one was dropped and the other one's operation is still in flight
C19_Witness ==
  \E s \in Streams :
    /\ wpc[s] = "waitall"
    /\ Len(w[s]) = 2
    /\ dropped[s] = 1
    /\ it[s][2].st = "inflight"
    /\ wg[s] = 1

\* C20: with fair scheduling and operations that all return, the trial comes
\* to its end and stays there: the barrier is released, every stream is past
\* the last item of its replay loop, its wait-all is over (count 0) and it has
\* returned its samples, and the Coordinator is past its joins and holds the
\* Sample Set of the trial.
C20_TrialCompletes ==
  <>[](/\ starter = 0
       /\ \A s \in Streams : /\ idx[s] = Len(w[s]) + 1
                              /\ wg[s] = 0
                              /\ wpc[s] = "ret"
                              /\ samples[s] = w[s]
       /\ cpc \in {"printed", "crashed"}
       /\ rps.n = Len(agg))

\* the trial has ended with its Sample Set: every stream returned, one of them
\* after two items, and a sample was kept
C20_Witness ==
  /\ cpc \in {"printed", "crashed"}
  /\ \A s \in Streams : wpc[s] = "ret"
  /\ \E s \in Streams : Len(w[s]) = 2
  /\ agg # <<>>
  /\ finish > start
====
